---- MODULE Spec2Model ----
(***************************************************************************)
(* Model of the graveyard dashboard's backend.  backend/daily_ping.py:     *)
(* status taxonomy, roster loading, tier classifier and tier table,        *)
(* replacement suggester, single-target prober, concurrent probe           *)
(* orchestrator, simulated single-item probe and the output files.         *)
(* backend/server.py: the refresh and replace-model requests.              *)
(*                                                                         *)
(* Python strings are TLA+ strings; None is the reserved string None.      *)
(* A call of a pure function is a pair of variables: its argument(s) and   *)
(* the sequence of values it has returned (<<>> before the call).          *)
(***************************************************************************)
EXTENDS Naturals, Integers, Sequences, FiniteSets, TLC

VARIABLES
    tierIn,     \* _classify_tier: model_name
    tierOut,    \* _classify_tier: returned tier
    errIn,      \* classify_error: message
    errOut,     \* classify_error: returned code
    probePc,    \* probe_model: "start", "ran" (subprocess.run is over), "done"
    proc,       \* probe_model: what subprocess.run did (ProcIdle before the call)
    invocations,\* probe_model: number of calls of subprocess.run
    probeOut,   \* probe_model: returned outcome, or Raised
    roster,     \* the decoded roster.json
    items,      \* real_ping: its argument, the entries load_roster returned
    max_workers,\* real_ping: its argument
    pingPc,     \* real_ping: "start", "pool" (inside the with block),
                \*   "shutdown" (leaving the with block on an exception),
                \*   "rebuild" (after the with block), "returned", "raised";
                \*   then write_outputs: "status_written", "written"
    future_map, \* real_ping: submitted probe -> its model
    queued,     \* the executor: submitted probes not yet started
    running,    \* the executor: probes in flight
    future,     \* the executor: submitted probe -> result of its finished future
    collected,  \* real_ping: the futures as_completed has yielded, in that order
    model_results, \* real_ping: model -> outcome collected by the as_completed loop
    results,    \* real_ping: the records it returns
    probeCalls, \* model -> number of probe_model calls started for it
    sugFailed,  \* suggest_replacement: failed_model
    sugStatus,  \* suggest_replacement: current_status_items
    sugOut,     \* suggest_replacement: returned model, or None
    tiersOut,   \* get_model_tiers: returned tier table
    status,     \* data/graveyard_status.json (StatusAbsent: no such file)
    history,    \* data/graveyard_history.jsonl: its lines, decoded
    clock,      \* the wall clock: it ticks when an operation starts
    lookups,    \* the codes STATUS_MAP has been indexed with
    thr,        \* handler thread or process -> the operation it is in
    backup,     \* data/roster.json.bak (BackupAbsent: no such file)
    replaced,   \* entry id -> the new model of the last replace-model request
                \*   for it, once that request is answered ok and as long as
                \*   no later request for the entry has been accepted
    answer      \* the answer the last step gave to a request (NoAnswer: none)

tierVars == <<tierIn, tierOut>>
errVars  == <<errIn, errOut>>
probeVars == <<probePc, proc, invocations, probeOut>>
pingVars == <<roster, items, max_workers, pingPc, future_map, queued, running, future,
              collected, model_results, results, probeCalls>>
sugVars == <<sugFailed, sugStatus, sugOut>>
tblVars == <<tiersOut>>
srvVars == <<status, history, clock, lookups, thr, backup, replaced, answer>>
runVars == <<items, max_workers, pingPc, future_map, queued, running, future, collected,
             model_results, results, probeCalls>>
vars == <<tierIn, tierOut, errIn, errOut, probePc, proc, invocations, probeOut,
          roster, items, max_workers, pingPc, future_map, queued, running, future,
          collected, model_results, results, probeCalls,
          sugFailed, sugStatus, sugOut, tiersOut,
          status, history, clock, lookups, thr, backup, replaced, answer>>

(***************************************************************************)
(* Bounds of the model.                                                    *)
(***************************************************************************)
MaxTierFrags == 2    \* fragments concatenated into a model identifier
MaxErrFrags == 2     \* fragments concatenated into an error message
MaxLines == 2        \* lines of standard output of the probe process
MaxSection == 2      \* entries of one section (agents, categories) of the roster
MaxWorkers == 2      \* largest max_workers real_ping is called with
MaxTierRoster == 2   \* roster entries in a call of suggest_replacement
MaxTableSection == 2 \* entries of one section of the roster get_model_tiers reads
MaxClock == 2        \* operations (runs, refreshes, replace-model requests) started

(***************************************************************************)
(* Python values.                                                          *)
(***************************************************************************)
None == "<None>"

Range(f) == {f[x] : x \in DOMAIN f}

\* Python truthiness of an optional string: None and "" are falsy.
Truthy(v) == v # None /\ v # ""

(***************************************************************************)
(* str.lower(), the `in` substring test, str.strip().                      *)
(***************************************************************************)
\* The letters str.lower() changes.
UpperToLower ==
    [c \in {"A", "B", "C", "D", "E", "F", "G", "H", "I", "J", "K", "L", "M",
            "N", "O", "P", "Q", "R", "S", "T", "U", "V", "W", "X", "Y", "Z"} |->
        CASE c = "A" -> "a" [] c = "B" -> "b" [] c = "C" -> "c" [] c = "D" -> "d"
          [] c = "E" -> "e" [] c = "F" -> "f" [] c = "G" -> "g" [] c = "H" -> "h"
          [] c = "I" -> "i" [] c = "J" -> "j" [] c = "K" -> "k" [] c = "L" -> "l"
          [] c = "M" -> "m" [] c = "N" -> "n" [] c = "O" -> "o" [] c = "P" -> "p"
          [] c = "Q" -> "q" [] c = "R" -> "r" [] c = "S" -> "s" [] c = "T" -> "t"
          [] c = "U" -> "u" [] c = "V" -> "v" [] c = "W" -> "w" [] c = "X" -> "x"
          [] c = "Y" -> "y" [] c = "Z" -> "z"]

LowerChar(c) == IF c \in DOMAIN UpperToLower THEN UpperToLower[c] ELSE c

RECURSIVE Lower(_)
Lower(s) ==
    IF Len(s) = 0 THEN ""
    ELSE LowerChar(SubSeq(s, 1, 1)) \o Lower(SubSeq(s, 2, Len(s)))

\* sub in s
Contains(s, sub) ==
    \E i \in 1..(Len(s) + 1) :
        /\ i + Len(sub) - 1 <= Len(s)
        /\ SubSeq(s, i, i + Len(sub) - 1) = sub

IsSpace(c) == c \in {" ", "\t", "\n", "\r"}

RECURSIVE LStrip(_)
LStrip(s) ==
    IF Len(s) > 0 /\ IsSpace(SubSeq(s, 1, 1))
    THEN LStrip(SubSeq(s, 2, Len(s)))
    ELSE s

RECURSIVE RStrip(_)
RStrip(s) ==
    IF Len(s) > 0 /\ IsSpace(SubSeq(s, Len(s), Len(s)))
    THEN RStrip(SubSeq(s, 1, Len(s) - 1))
    ELSE s

Strip(s) == RStrip(LStrip(s))

\* All concatenations of at most n strings of the set frags.
RECURSIVE Concats(_, _)
Concats(frags, n) ==
    IF n = 0 THEN {""}
    ELSE LET shorter == Concats(frags, n - 1)
         IN  shorter \cup {s \o f : s \in shorter, f \in frags}

(***************************************************************************)
(* Status taxonomy.                                                        *)
(***************************************************************************)
STATUS_MAP ==
    (200 :> <<"ALIVE", "OK">>) @@
    (429 :> <<"RATE_LIMIT", "WARN">>) @@
    (408 :> <<"TIMEOUT", "ERROR">>) @@
    (500 :> <<"PROVIDER_ERROR", "ERROR">>) @@
    (401 :> <<"UNAUTHORIZED", "CRITICAL">>) @@
    (404 :> <<"MODEL_NOT_FOUND", "CRITICAL">>) @@
    (400 :> <<"BAD_REQUEST", "ERROR">>)

(***************************************************************************)
(* Tier classifier.                                                        *)
(***************************************************************************)
TIER_ORDER == <<"top", "high", "mid", "light">>

\* Faulty variant: the "pro" test is made before the "opus" test.
ClassifyTierProFirst(model_name) ==
    LET low == Lower(model_name)
    IN  IF Contains(low, "gpt-5") \/ Contains(low, "pro-high") \/ Contains(low, "pro")
        THEN "high"
        ELSE IF Contains(low, "opus") THEN "top"
        ELSE IF Contains(low, "sonnet") THEN "mid"
        ELSE "light"

_classify_tier(model_name) ==
    LET low == Lower(model_name)
    IN  IF Contains(low, "opus") THEN "top"
        ELSE IF Contains(low, "gpt-5") \/ Contains(low, "pro-high") \/ Contains(low, "pro")
        THEN "high"
        ELSE IF Contains(low, "sonnet") THEN "mid"
        ELSE "light"

(***************************************************************************)
(* The prober's error-message classifier.                                  *)
(***************************************************************************)
\* Faulty variant: the "rate limit" rule is tested before the "unauthorized" rule.
ClassifyErrorRateFirst(message) ==
    IF ~Truthy(message) THEN 500
    ELSE LET low == Lower(message)
         IN  IF Contains(low, "model not found") THEN 404
             ELSE IF Contains(low, "rate limit") \/ Contains(low, "429") THEN 429
             ELSE IF Contains(low, "unauthorized") \/ Contains(low, "401")
                     \/ Contains(low, "403") THEN 401
             ELSE IF Contains(low, "timeout") \/ Contains(low, "408") THEN 408
             ELSE IF Contains(low, "500") \/ Contains(low, "502") \/ Contains(low, "503")
                     \/ Contains(low, "504") \/ Contains(low, "server error") THEN 500
             ELSE IF Contains(low, "400") \/ Contains(low, "bad request") THEN 400
             ELSE 500

classify_error(message) ==
    IF ~Truthy(message) THEN 500
    ELSE LET low == Lower(message)
         IN  IF Contains(low, "model not found") THEN 404
             ELSE IF Contains(low, "unauthorized") \/ Contains(low, "401")
                     \/ Contains(low, "403") THEN 401
             ELSE IF Contains(low, "rate limit") \/ Contains(low, "429") THEN 429
             ELSE IF Contains(low, "timeout") \/ Contains(low, "408") THEN 408
             ELSE IF Contains(low, "500") \/ Contains(low, "502") \/ Contains(low, "503")
                     \/ Contains(low, "504") \/ Contains(low, "server error") THEN 500
             ELSE IF Contains(low, "400") \/ Contains(low, "bad request") THEN 400
             ELSE 500

(***************************************************************************)
(* Decoded JSON values (json.loads): tagged records.  A dict is a function *)
(* from its keys to values; dict.get of a missing key is JNull (None).     *)
(***************************************************************************)
JNull == [t |-> "null"]
JArr == [t |-> "list"]
JNum(n) == [t |-> "int", n |-> n]
JStr(s) == [t |-> "str", s |-> s]
JObj(f) == [t |-> "dict", f |-> f]
JFail == [t |-> "JSONDecodeError"]     \* json.loads raised

IsDict(v) == v.t = "dict"
IsStr(v) == v.t = "str"
Get(d, k) == IF k \in DOMAIN d.f THEN d.f[k] ELSE JNull

(***************************************************************************)
(* Single-target prober.  The external process is given by what            *)
(* subprocess.run did: how |-> "completed" (with the lines of stdout, each *)
(* with what json.loads makes of it, and stderr), "timeout"                *)
(* (TimeoutExpired) or "oserror" (the command could not be started); and   *)
(* the elapsed milliseconds.                                               *)
(***************************************************************************)
Raised == [exc |-> TRUE]

Outcome(http_status, error_type, error_message, latency_ms) ==
    [http_status |-> http_status,
     status |-> STATUS_MAP[http_status][1],
     severity |-> STATUS_MAP[http_status][2],
     error_type |-> error_type,
     error_message |-> error_message,
     latency_ms |-> latency_ms]

\* The message of an "error" event (None when there is no string message).
ErrorEventMessage(payload) ==
    LET error_value == Get(payload, "error")
        message_value ==
            IF IsDict(error_value)
            THEN IF IsDict(Get(error_value, "data"))
                 THEN Get(Get(error_value, "data"), "message")
                 ELSE Get(error_value, "message")
            ELSE JNull
    IN  IF IsStr(message_value) THEN message_value.s ELSE None

\* The scan of stdout: [ev |-> "text"] (return 200), [ev |-> "error", msg]
\* (break), [ev |-> "none"] (the loop ran out), [ev |-> "raise"] (a line
\* decoded to something that is no dict: payload.get raises AttributeError).
RECURSIVE ScanLines(_)
ScanLines(lines) ==
    IF lines = <<>> THEN [ev |-> "none", msg |-> None]
    ELSE LET line == Head(lines)
             payload == line.parsed
         IN  IF Strip(line.text) = "" THEN ScanLines(Tail(lines))
             ELSE IF payload = JFail THEN ScanLines(Tail(lines))
             ELSE IF ~IsDict(payload) THEN [ev |-> "raise", msg |-> None]
             ELSE IF Get(payload, "type") = JStr("text")
                  THEN [ev |-> "text", msg |-> None]
             ELSE IF Get(payload, "type") = JStr("error")
                  THEN [ev |-> "error", msg |-> ErrorEventMessage(payload)]
             ELSE ScanLines(Tail(lines))

\* Faulty variant: a timeout is not terminal: it falls through to the error
\* classification without a message.
ProbeModelTimeoutUnhandled(p) ==
    IF p.how = "oserror" THEN Raised
    ELSE IF p.how = "timeout" THEN Outcome(500, "PROVIDER_ERROR", None, p.elapsed)
    ELSE LET scan == ScanLines(p.stdout)
         IN  IF scan.ev = "raise" THEN Raised
             ELSE IF scan.ev = "text" THEN Outcome(200, None, None, p.elapsed)
             ELSE LET error_message ==
                          IF ~Truthy(scan.msg) /\ p.stderr # ""
                          THEN IF Strip(p.stderr) # "" THEN Strip(p.stderr) ELSE None
                          ELSE scan.msg
                      http_status == classify_error(error_message)
                  IN  Outcome(http_status, STATUS_MAP[http_status][1],
                              error_message, p.elapsed)

probe_model(p) ==
    IF p.how = "oserror" THEN Raised
    ELSE IF p.how = "timeout" THEN Outcome(408, "TIMEOUT", "Timeout", p.elapsed)
    ELSE LET scan == ScanLines(p.stdout)
         IN  IF scan.ev = "raise" THEN Raised
             ELSE IF scan.ev = "text" THEN Outcome(200, None, None, p.elapsed)
             ELSE LET error_message ==
                          IF ~Truthy(scan.msg) /\ p.stderr # ""
                          THEN IF Strip(p.stderr) # "" THEN Strip(p.stderr) ELSE None
                          ELSE scan.msg
                      http_status == classify_error(error_message)
                  IN  Outcome(http_status, STATUS_MAP[http_status][1],
                              error_message, p.elapsed)

(***************************************************************************)
(* Roster loading.  A JSON mapping whose order matters (dict.items()) is a *)
(* sequence of <<name, value>> pairs with distinct names: roster.agents    *)
(* and roster.categories.                                                  *)
(***************************************************************************)
Digits == "0123456789"

\* str(value) of a value that is neither None nor a string.
PyStr(v) ==
    IF v.t = "int" THEN SubSeq(Digits, v.n + 1, v.n + 1)
    ELSE IF v.t = "list" THEN "[]"
    ELSE "{}"

normalize_model(value) ==
    IF value = JNull THEN None
    ELSE IF IsStr(value)
         THEN IF Strip(value.s) # "" THEN Strip(value.s) ELSE None
    ELSE PyStr(value)

\* entry_map.get("model") if entry_map else None
EntryModel(entry) ==
    IF IsDict(entry) /\ DOMAIN entry.f # {} THEN Get(entry, "model") ELSE JNull

\* A section: a dict whose items() are the pairs kv, in order.
JSection(kv) == [t |-> "dict", kv |-> kv]

SectionItems(section, type) ==
    [i \in 1..Len(section.kv) |->
        [name |-> section.kv[i][1], type |-> type,
         model |-> normalize_model(EntryModel(section.kv[i][2]))]]

\* coerce_mapping(roster.get(key)) is not None
IsSection(v) == IsDict(v)

load_roster(r) ==
    IF r = JFail \/ r = JNull THEN <<>>
    ELSE (IF IsSection(r.agents) THEN SectionItems(r.agents, "agent") ELSE <<>>)
         \o (IF IsSection(r.categories) THEN SectionItems(r.categories, "category")
             ELSE <<>>)

(***************************************************************************)
(* Tier table and replacement suggester.                                   *)
(***************************************************************************)
\* The models of a section's entries, in the order of its items().
SectionModels(section) ==
    IF IsSection(section)
    THEN [i \in 1..Len(section.kv) |-> normalize_model(EntryModel(section.kv[i][2]))]
    ELSE <<>>

\* The loop body of get_model_tiers over the models met so far.
RECURSIVE TierFold(_, _, _)
TierFold(models, seen, tiers) ==
    IF models = <<>> THEN tiers
    ELSE LET model == Head(models)
         IN  IF Truthy(model) /\ model \notin seen
             THEN TierFold(Tail(models), seen \cup {model},
                           [tiers EXCEPT ![_classify_tier(model)] = Append(@, model)])
             ELSE TierFold(Tail(models), seen, tiers)

EmptyTiers == [t \in Range(TIER_ORDER) |-> <<>>]

\* Faulty variant: the categories are traversed before the agents.
GetModelTiersCategoriesFirst(r) ==
    IF r = JFail \/ r = JNull THEN EmptyTiers
    ELSE TierFold(SectionModels(r.categories) \o SectionModels(r.agents), {},
                  EmptyTiers)

get_model_tiers(r) ==
    IF r = JFail \/ r = JNull THEN EmptyTiers
    ELSE TierFold(SectionModels(r.agents) \o SectionModels(r.categories), {},
                  EmptyTiers)

\* TIER_ORDER.index(tier), counted from 1.
TierIndex(tier) == CHOOSE i \in DOMAIN TIER_ORDER : TIER_ORDER[i] = tier

AliveModels(current_status_items) ==
    {current_status_items[i].model :
        i \in {j \in DOMAIN current_status_items :
                 /\ current_status_items[j].severity = "OK"
                 /\ Truthy(current_status_items[j].model)}}

\* The first model of the sequence that is alive and is not the failed one.
FirstCandidate(models, alive_models, failed_model) ==
    LET hits == {i \in DOMAIN models :
                    models[i] \in alive_models /\ models[i] # failed_model}
    IN  IF hits = {} THEN None
        ELSE models[CHOOSE i \in hits : \A j \in hits : i <= j]

\* Faulty variant: the failed model itself is not excluded.
SuggestKeepsFailed(failed_model, current_status_items, r) ==
    LET tiers == get_model_tiers(r)
        tier_idx == TierIndex(_classify_tier(failed_model))
        up_idx == IF tier_idx - 1 >= 1 THEN tier_idx - 1 ELSE 1
        alive_models == AliveModels(current_status_items)
        same == FirstCandidate(tiers[TIER_ORDER[tier_idx]], alive_models, None)
    IN  IF same # None THEN same
        ELSE FirstCandidate(tiers[TIER_ORDER[up_idx]], alive_models, None)

\* Faulty variant: the tier one up is searched before the failed model's own tier.
SuggestUpFirst(failed_model, current_status_items, r) ==
    LET tiers == get_model_tiers(r)
        tier_idx == TierIndex(_classify_tier(failed_model))
        up_idx == IF tier_idx - 1 >= 1 THEN tier_idx - 1 ELSE 1
        alive_models == AliveModels(current_status_items)
        up == FirstCandidate(tiers[TIER_ORDER[up_idx]], alive_models, failed_model)
    IN  IF up # None THEN up
        ELSE FirstCandidate(tiers[TIER_ORDER[tier_idx]], alive_models, failed_model)

\* suggest_replacement, with the roster get_model_tiers reads.
suggest_replacement(failed_model, current_status_items, r) ==
    LET tiers == get_model_tiers(r)
        tier_idx == TierIndex(_classify_tier(failed_model))
        up_idx == IF tier_idx - 1 >= 1 THEN tier_idx - 1 ELSE 1
        alive_models == AliveModels(current_status_items)
        same == FirstCandidate(tiers[TIER_ORDER[tier_idx]], alive_models, failed_model)
    IN  IF same # None THEN same
        ELSE FirstCandidate(tiers[TIER_ORDER[up_idx]], alive_models, failed_model)

(***************************************************************************)
(* Concurrent probe orchestrator: the pieces of real_ping.                 *)
(***************************************************************************)
RECURSIVE DistinctModels(_, _)
DistinctModels(its, seen) ==
    IF its = <<>> THEN <<>>
    ELSE LET m == Head(its).model
         IN  IF Truthy(m) /\ m \notin seen
             THEN <<m>> \o DistinctModels(Tail(its), seen \cup {m})
             ELSE DistinctModels(Tail(its), seen)

RECURSIVE TruthyModels(_)
TruthyModels(its) ==
    IF its = <<>> THEN <<>>
    ELSE (IF Truthy(Head(its).model) THEN <<Head(its).model>> ELSE <<>>)
         \o TruthyModels(Tail(its))

\* Faulty variant: one probe is submitted per entry that has a model.
SubmittedModelsPerEntry(its) == TruthyModels(its)

\* The probes submitted: one per element of the set `models` (task t probes
\* SubmittedModels(items)[t]; the pool may start them in any order).
SubmittedModels(its) == DistinctModels(its, {})

OrUnknown(v) == IF Truthy(v) THEN v ELSE "unknown"

ItemId(item) == OrUnknown(item.type) \o ":" \o OrUnknown(item.name)

StatusRecord(item, probe) ==
    [id |-> ItemId(item),
     name |-> OrUnknown(item.name),
     type |-> OrUnknown(item.type),
     model |-> item.model,
     status |-> probe.status,
     severity |-> probe.severity,
     http_status |-> probe.http_status,
     error_type |-> probe.error_type,
     error_message |-> probe.error_message,
     latency_ms |-> probe.latency_ms]

InvalidConfig ==
    [http_status |-> 0, status |-> "INVALID_CONFIG", severity |-> "ERROR",
     error_type |-> "INVALID_CONFIG", error_message |-> "Missing model",
     latency_ms |-> 0]

ProbeFailed == Outcome(500, "PROVIDER_ERROR", "Probe failed", 0)

\* Faulty variant: the records are built walking the entries from the last to
\* the first.
ReconstructReversed(its, mres) ==
    [i \in 1..Len(its) |->
        LET item == its[Len(its) + 1 - i]
        IN  IF ~Truthy(item.model) THEN StatusRecord(item, InvalidConfig)
            ELSE IF item.model \in DOMAIN mres
                 THEN StatusRecord(item, mres[item.model])
                 ELSE StatusRecord(item, ProbeFailed)]

\* Faulty variant: the `if not model` branch is lost, so an entry without a model is
\* looked up like the others and falls to the "Probe failed" record.
ReconstructNoInvalid(its, mres) ==
    [i \in 1..Len(its) |->
        IF its[i].model \in DOMAIN mres
        THEN StatusRecord(its[i], mres[its[i].model])
        ELSE StatusRecord(its[i], ProbeFailed)]

\* The second loop of real_ping: one record per item, in the order of the items.
Reconstruct(its, mres) ==
    [i \in 1..Len(its) |->
        IF ~Truthy(its[i].model) THEN StatusRecord(its[i], InvalidConfig)
        ELSE IF its[i].model \in DOMAIN mres
             THEN StatusRecord(its[i], mres[its[i].model])
             ELSE StatusRecord(its[i], ProbeFailed)]

(***************************************************************************)
(* Simulated single-item probe, output files, replace-model request.       *)
(***************************************************************************)
\* Faulty variant: the simulated probe can draw a code STATUS_MAP does not know.
WeightedWithUnknownCode == <<200, 200, 200, 200, 200, 429, 408, 500, 401, 404, 400, 503>>

WEIGHTED_HTTP_STATUSES == <<200, 200, 200, 200, 200, 429, 408, 500, 401, 404, 400>>

\* random.randint(50, 3000): its two ends.
PingLatencies == {50, 3000}

\* ping_single with the two values it draws; Raised is the KeyError of a code
\* STATUS_MAP does not know.
ping_single(name, item_type, model, http_status, latency_ms) ==
    IF http_status \notin DOMAIN STATUS_MAP THEN Raised
    ELSE LET st == STATUS_MAP[http_status][1]
         IN  [id |-> item_type \o ":" \o name,
              name |-> name,
              type |-> item_type,
              model |-> model,
              status |-> st,
              severity |-> STATUS_MAP[http_status][2],
              http_status |-> http_status,
              error_type |-> IF http_status = 200 THEN None ELSE st,
              error_message |->
                  IF http_status = 200 THEN None ELSE "Simulated " \o Lower(st),
              latency_ms |-> latency_ms]

\* write_outputs: the payload, and the history file after the append.
Payload(its, now) == [generated_at |-> now, schema_version |-> 1, items |-> its]

\* Faulty variant: the history file is opened for writing, not for appending.
TruncateAndWrite(lines, payload) == <<payload>>

AppendLine(lines, payload) == Append(lines, payload)

\* agent_id.split(":", 1): the position of the first colon (0: there is none).
FirstColon(agent_id) ==
    LET at == {i \in 1..Len(agent_id) : SubSeq(agent_id, i, i) = ":"}
    IN  IF at = {} THEN 0 ELSE CHOOSE i \in at : \A j \in at : i <= j

IdType(agent_id) == SubSeq(agent_id, 1, FirstColon(agent_id) - 1)
IdName(agent_id) == SubSeq(agent_id, FirstColon(agent_id) + 1, Len(agent_id))
SectionKey(item_type) == IF item_type = "agent" THEN "agents" ELSE "categories"

\* The place of `name` in a section (0: name not in section).
EntryIndex(section, name) ==
    LET at == {i \in 1..Len(section.kv) : section.kv[i][1] = name}
    IN  IF at = {} THEN 0 ELSE CHOOSE i \in at : TRUE

\* Lines 139-170: the request is answered with an error before anything is
\* written.
Rejected(body, config) ==
    \/ body.agent_id = "" \/ body.new_model = ""
    \/ FirstColon(body.agent_id) = 0
    \/ IdType(body.agent_id) \notin {"agent", "category"}
    \/ config = JFail
    \/ LET section == config[SectionKey(IdType(body.agent_id))]
       IN  \/ ~IsDict(section)
           \/ EntryIndex(section, IdName(body.agent_id)) = 0
           \/ ~IsDict(section.kv[EntryIndex(section, IdName(body.agent_id))][2])

\* old_model = entry.get("model", "")
OldModel(config, body) ==
    LET section == config[SectionKey(IdType(body.agent_id))]
        entry == section.kv[EntryIndex(section, IdName(body.agent_id))][2]
    IN  IF "model" \in DOMAIN entry.f THEN entry.f["model"] ELSE JStr("")

\* entry["model"] = new_model, and the config as it is written back.
SetModel(config, body) ==
    LET key == SectionKey(IdType(body.agent_id))
        section == config[key]
        i == EntryIndex(section, IdName(body.agent_id))
        entry == section.kv[i][2]
        changed == JObj([k \in DOMAIN entry.f \cup {"model"} |->
                            IF k = "model" THEN JStr(body.new_model) ELSE entry.f[k]])
    IN  [config EXCEPT ![key] =
            JSection([section.kv EXCEPT ![i] = <<section.kv[i][1], changed>>])]

\* Faulty variant: every record but the matching one is dropped.
PatchOnlyKeepsMatch(its, agent_id, new_status) ==
    IF \E i \in DOMAIN its : its[i].id = agent_id THEN <<new_status>> ELSE its

\* Lines 198-201: the first record with the id is replaced.
PatchItems(its, agent_id, new_status) ==
    LET at == {i \in DOMAIN its : its[i].id = agent_id}
    IN  IF at = {} THEN its
        ELSE [its EXCEPT ![CHOOSE i \in at : \A j \in at : i <= j] = new_status]

(***************************************************************************)
(* Idle values of each group of variables.                                 *)
(***************************************************************************)
TierIdle == tierIn = "" /\ tierOut = <<>>
ErrIdle  == errIn = None /\ errOut = <<>>
ProcIdle == [how |-> "idle"]
EmptyMap == <<>>
RunIdle ==
    /\ items = <<>> /\ max_workers = 0 /\ pingPc = "idle"
    /\ future_map = <<>>
    /\ queued = {} /\ running = {} /\ future = EmptyMap /\ collected = <<>>
    /\ model_results = EmptyMap /\ results = <<>> /\ probeCalls = EmptyMap
PingIdle == roster = JNull /\ RunIdle
SugIdle == sugFailed = "" /\ sugStatus = <<>> /\ sugOut = <<>>
ProbeIdle == probePc = "idle" /\ proc = ProcIdle /\ invocations = 0 /\ probeOut = <<>>
TableIdle == tiersOut = <<>>
\* The files hold JSON; a file is modelled by the value json.loads gives for
\* it (json.dumps then json.loads returns the dicts, lists, strings, ints and
\* None written).
StatusAbsent == [exists |-> FALSE]
\* The threads of the Flask server and the daily_ping process.
Handlers == {"t1", "t2"}
NoRecord == [id |-> None]
\* A thread between operations.  pc: "idle"; "probed" (real_ping returned),
\* "status_written" (write_outputs wrote the status file); "pinged" (the
\* roster is written, ping_single returned), "read" (the status file is read).
\* old_model: the entry's model before the request wrote the roster.
ThreadIdle ==
    [pc |-> "idle", items |-> <<>>, payload |-> StatusAbsent, agent_id |-> "",
     new_status |-> NoRecord, status_data |-> StatusAbsent, probes |-> <<>>,
     old_model |-> JNull]
\* An answer to a request: its kind.
Answer(kind) ==
    [kind |-> kind, agent_id |-> "", old_model |-> JNull, new_model |-> ""]
\* The answers of api_replace_model that name the entry and its two models.
ReplaceAnswer(kind, agent_id, old_model, new_model) ==
    [kind |-> kind, agent_id |-> agent_id, old_model |-> old_model,
     new_model |-> new_model]
NoAnswer == Answer("none")
BackupAbsent == [exists |-> FALSE]
ServerIdle ==
    /\ status = StatusAbsent /\ history = <<>> /\ clock = 0 /\ lookups = {}
    /\ thr = [t \in Handlers |-> ThreadIdle]
    /\ backup = BackupAbsent /\ replaced = EmptyMap /\ answer = NoAnswer

(***************************************************************************)
(* Specification SpecTier: one call of _classify_tier on any identifier    *)
(* built from the fragments below.                                         *)
(***************************************************************************)
TierFragments ==
    {"opus", "Opus", "gpt-5", "GPT-5", "pro-high", "pro", "Pro",
     "sonnet", "SONNET", "haiku", "-4"}

TierInputs == Concats(TierFragments, MaxTierFrags)

InitTier ==
    /\ tierIn \in TierInputs
    /\ tierOut = <<>>
    /\ ErrIdle
    /\ ProbeIdle
    /\ PingIdle
    /\ SugIdle
    /\ TableIdle
    /\ ServerIdle

CallClassifyTier ==
    /\ tierOut = <<>>
    /\ tierOut' = <<_classify_tier(tierIn)>>
    /\ UNCHANGED <<tierIn, errVars, probeVars, pingVars, sugVars, tblVars, srvVars>>

NextTier == CallClassifyTier

SpecTier == InitTier /\ [][NextTier]_vars

(***************************************************************************)
(* Specification SpecErr: one call of classify_error on None or on any     *)
(* message built from the fragments below.                                 *)
(***************************************************************************)
ErrFragments ==
    {"model not found", "Model Not Found", "unauthorized", "401", "403",
     "rate limit", "Rate Limit", "429", "timeout", "TIMEOUT", "408",
     "500", "502", "503", "504", "server error", "400", "Bad Request",
     "bad request", "oops", " "}

ErrInputs == Concats(ErrFragments, MaxErrFrags) \cup {None}

InitErr ==
    /\ errIn \in ErrInputs
    /\ errOut = <<>>
    /\ TierIdle
    /\ ProbeIdle
    /\ PingIdle
    /\ SugIdle
    /\ TableIdle
    /\ ServerIdle

CallClassifyError ==
    /\ errOut = <<>>
    /\ errOut' = <<classify_error(errIn)>>
    /\ UNCHANGED <<errIn, tierVars, probeVars, pingVars, sugVars, tblVars, srvVars>>

NextErr == CallClassifyError

SpecErr == InitErr /\ [][NextErr]_vars

(***************************************************************************)
(* Specification SpecProbe: one call of probe_model.  RunProcess is the    *)
(* call of subprocess.run, with any behaviour of the external process      *)
(* built from the lines below; ProbeReturn is the rest of the function.    *)
(***************************************************************************)
Line(text, parsed) == [text |-> text, parsed |-> parsed]

TextEvent == Line("{\"type\":\"text\"}", JObj([type |-> JStr("text")]))

ErrorEvent(error_value) ==
    Line("{\"type\":\"error\"}", JObj([type |-> JStr("error"), error |-> error_value]))

\* error.data.message is a string.
ErrDataMessage ==
    ErrorEvent(JObj([data |-> JObj([message |-> JStr("Rate limit exceeded")]),
                     message |-> JStr("Unauthorized")]))
\* error.data is a dict without a message; error.message is a string.
ErrDataNoMessage ==
    ErrorEvent(JObj([data |-> JObj(<<>>), message |-> JStr("Unauthorized")]))
\* error.data.message is no string; error.message is a string.
ErrDataNonString ==
    ErrorEvent(JObj([data |-> JObj([message |-> JNum(400)]),
                     message |-> JStr("Unauthorized")]))
\* no error.data; error.message is a string.
ErrTopMessage == ErrorEvent(JObj([message |-> JStr("Model not found: x")]))
\* error.data is no dict; error.message is a string.
ErrDataNotDict ==
    ErrorEvent(JObj([data |-> JStr("boom"), message |-> JStr("Bad Request")]))
\* error is no dict.
ErrNotDict == ErrorEvent(JStr("request timeout"))
\* no error key at all.
ErrNoError == Line("{\"type\":\"error\"}", JObj([type |-> JStr("error")]))

StdoutLines ==
    {Line("", JFail), Line("  \t", JFail),
     Line("PONG", JFail),
     Line("42", JNum(42)), Line("[]", JArr), Line("null", JNull),
     Line("{\"type\":\"step_start\"}", JObj([type |-> JStr("step_start")])),
     Line("{}", JObj(<<>>)),
     TextEvent,
     ErrDataMessage, ErrDataNoMessage, ErrDataNonString, ErrTopMessage,
     ErrDataNotDict, ErrNotDict, ErrNoError}

Stdouts == UNION {[1..n -> StdoutLines] : n \in 0..MaxLines}

Stderrs == {"", " \n", "Error: 503 Service Unavailable\n"}

Elapsed == {35, 60000}

ProcBehaviours ==
    [how : {"completed"}, stdout : Stdouts, stderr : Stderrs, elapsed : Elapsed]
    \cup [how : {"timeout"}, elapsed : Elapsed]
    \cup [how : {"oserror"}, elapsed : Elapsed]

InitProbe ==
    /\ probePc = "start"
    /\ proc = ProcIdle
    /\ invocations = 0
    /\ probeOut = <<>>
    /\ TierIdle
    /\ ErrIdle
    /\ PingIdle
    /\ SugIdle
    /\ TableIdle
    /\ ServerIdle

RunProcess ==
    /\ probePc = "start"
    /\ \E p \in ProcBehaviours : proc' = p
    /\ invocations' = invocations + 1
    /\ probePc' = "ran"
    /\ UNCHANGED <<probeOut, tierVars, errVars, pingVars, sugVars, tblVars, srvVars>>

ProbeReturn ==
    /\ probePc = "ran"
    /\ probeOut' = <<probe_model(proc)>>
    /\ probePc' = "done"
    /\ UNCHANGED <<proc, invocations, tierVars, errVars, pingVars, sugVars, tblVars, srvVars>>

NextProbe == RunProcess \/ ProbeReturn

SpecProbe == InitProbe /\ [][NextProbe]_vars

(***************************************************************************)
(* Specification Spec: one run of real_ping(load_roster(), max_workers)    *)
(* on a thread pool of max_workers threads.  The pool starts a queued      *)
(* probe whenever a thread is free; a probe finishes with any behaviour of *)
(* the external process among PingBehaviours; the as_completed loop takes  *)
(* the finished futures in any order.  future.result() re-raises what the  *)
(* probe raised, which leaves the with block: the executor's shutdown      *)
(* waits for every submitted probe, and real_ping raises.  When real_ping  *)
(* has returned, its caller (main, api_refresh) calls write_outputs.       *)
(***************************************************************************)
RosterNames == {"", "a"}

RosterEntries ==
    {JObj(<<>>),
     JObj([model |-> JStr("")]),
     JObj([model |-> JStr("m1")]),
     JObj([model |-> JStr("m2 ")]),
     JObj([model |-> JNum(3)])}

Sections ==
    {JSection(kv) :
        kv \in {sec \in UNION {[1..n -> RosterNames \X RosterEntries] :
                                  n \in 0..MaxSection} :
                    \A i, j \in 1..Len(sec) : sec[i][1] = sec[j][1] => i = j}}

Rosters == [agents : Sections, categories : Sections]

PingBehaviours ==
    {[how |-> "completed", stdout |-> <<TextEvent>>, stderr |-> "", elapsed |-> 35],
     [how |-> "completed", stdout |-> <<ErrDataMessage, TextEvent>>, stderr |-> "",
      elapsed |-> 35],
     [how |-> "completed", stdout |-> <<Line("42", JNum(42)), TextEvent>>,
      stderr |-> "", elapsed |-> 35],
     [how |-> "oserror", elapsed |-> 0]}

\* What a probe task can end with: the outcome probe_model returns, or Raised.
PingOutcomes == {probe_model(b) : b \in PingBehaviours}

Init ==
    /\ roster \in Rosters
    /\ items = load_roster(roster)
    /\ max_workers \in 1..MaxWorkers
    /\ pingPc = "start"
    /\ future_map = <<>>
    /\ queued = {}
    /\ running = {}
    /\ future = EmptyMap
    /\ collected = <<>>
    /\ model_results = EmptyMap
    /\ results = <<>>
    /\ probeCalls = EmptyMap
    /\ TierIdle
    /\ ErrIdle
    /\ ProbeIdle
    /\ SugIdle
    /\ TableIdle
    /\ ServerIdle

\* Lines 340-349: collect the distinct models, open the pool, submit one probe each.
Submit ==
    /\ pingPc = "start"
    /\ future_map' = SubmittedModels(items)
    /\ queued' = DOMAIN future_map'
    /\ probeCalls' = [m \in Range(future_map') |-> 0]
    /\ pingPc' = "pool"
    /\ UNCHANGED <<roster, items, max_workers, running, future, collected,
                   model_results, results, tierVars, errVars, probeVars, sugVars, tblVars, srvVars>>

\* Faulty variant: the pool starts a queued probe whether or not a thread is free.
ThreadFreeAlways == TRUE

\* ThreadPoolExecutor(max_workers): a work item runs on one of max_workers threads.
ThreadFree == Cardinality(running) < max_workers

\* A pool thread takes submitted probe t and calls probe_model.
StartProbe(t) ==
    /\ pingPc \in {"pool", "shutdown"}
    /\ t \in queued
    /\ ThreadFree
    /\ queued' = queued \ {t}
    /\ running' = running \cup {t}
    /\ probeCalls' = [probeCalls EXCEPT ![future_map[t]] = @ + 1]
    /\ UNCHANGED <<roster, items, max_workers, future_map, pingPc, future, collected,
                   model_results, results, tierVars, errVars, probeVars, sugVars, tblVars, srvVars>>

\* probe_model returns or raises: future t is finished.
FinishProbe(t) ==
    /\ pingPc \in {"pool", "shutdown"}
    /\ t \in running
    /\ \E r \in PingOutcomes : future' = (t :> r) @@ future
    /\ running' = running \ {t}
    /\ UNCHANGED <<roster, items, max_workers, future_map, pingPc, queued, collected,
                   model_results, results, probeCalls, tierVars, errVars, probeVars, sugVars, tblVars, srvVars>>

\* Lines 350-352: as_completed yields finished future t; future.result()
\* returns the outcome or re-raises the probe's exception.
Collect(t) ==
    /\ pingPc = "pool"
    /\ t \in DOMAIN future
    /\ t \notin Range(collected)
    /\ collected' = Append(collected, t)
    /\ IF future[t] = Raised
       THEN pingPc' = "shutdown" /\ UNCHANGED model_results
       ELSE /\ model_results' =
                  (future_map[t] :> future[t]) @@ model_results
            /\ UNCHANGED pingPc
    /\ UNCHANGED <<roster, items, max_workers, future_map, queued, running, future,
                   results, probeCalls, tierVars, errVars, probeVars, sugVars, tblVars, srvVars>>

\* Faulty variant: the loop is left with the first future as_completed yields.
AsCompletedFirstOnly == collected # <<>> \/ future_map = <<>>

\* as_completed(future_map) is exhausted: it has yielded every future.
AsCompletedExhausted == Range(collected) = DOMAIN future_map

\* The as_completed loop has yielded every future: the with block ends.
PoolExit ==
    /\ pingPc = "pool"
    /\ AsCompletedExhausted
    /\ pingPc' = "rebuild"
    /\ UNCHANGED <<roster, items, max_workers, future_map, queued, running, future, collected,
                   model_results, results, probeCalls, tierVars, errVars, probeVars, sugVars, tblVars, srvVars>>

\* Lines 354-403: build the records and return them.
Rebuild ==
    /\ pingPc = "rebuild"
    /\ results' = Reconstruct(items, model_results)
    /\ pingPc' = "returned"
    /\ UNCHANGED <<roster, items, max_workers, future_map, queued, running, future, collected,
                   model_results, probeCalls, tierVars, errVars, probeVars, sugVars, tblVars, srvVars>>

\* executor.shutdown(wait=True) on the way out with the exception: every
\* submitted probe has run; then real_ping raises.
ShutdownExit ==
    /\ pingPc = "shutdown"
    /\ queued = {} /\ running = {}
    /\ pingPc' = "raised"
    /\ UNCHANGED <<roster, items, max_workers, future_map, queued, running, future, collected,
                   model_results, results, probeCalls, tierVars, errVars, probeVars, sugVars, tblVars, srvVars>>

\* write_outputs(items, root) lines 411-420, after real_ping has returned.
WriteOutputsStatus ==
    /\ pingPc = "returned"
    /\ status' = Payload(results, clock)
    /\ pingPc' = "status_written"
    /\ UNCHANGED <<roster, items, max_workers, future_map, queued, running, future, collected,
                   model_results, results, probeCalls, history, clock, lookups, thr,
                   backup, replaced, answer,
                   tierVars, errVars, probeVars, sugVars, tblVars>>

\* write_outputs lines 421-422.
WriteOutputsHistory ==
    /\ pingPc = "status_written"
    /\ history' = AppendLine(history, Payload(results, clock))
    /\ pingPc' = "written"
    /\ UNCHANGED <<roster, items, max_workers, future_map, queued, running, future, collected,
                   model_results, results, probeCalls, status, clock, lookups, thr,
                   backup, replaced, answer,
                   tierVars, errVars, probeVars, sugVars, tblVars>>

Next ==
    \/ Submit
    \/ \E t \in DOMAIN future_map : StartProbe(t)
    \/ \E t \in DOMAIN future_map : FinishProbe(t)
    \/ \E t \in DOMAIN future_map : Collect(t)
    \/ PoolExit
    \/ Rebuild
    \/ ShutdownExit
    \/ WriteOutputsStatus
    \/ WriteOutputsHistory

Spec == Init /\ [][Next]_vars

(***************************************************************************)
(* Specification SpecSuggest: one call of suggest_replacement, for any     *)
(* failed model, any roster of at most MaxTierRoster entries (the first an *)
(* agent, the others categories; an entry has one of the models below or   *)
(* none) and any status snapshot in which each model is OK or ERROR.       *)
(***************************************************************************)
SuggestModels ==
    <<"claude-opus-4", "gpt-5", "gemini-pro", "claude-sonnet-4", "haiku">>

SuggestEntries ==
    {JObj([model |-> JStr(SuggestModels[i])]) : i \in DOMAIN SuggestModels}
    \cup {JObj(<<>>)}

\* The entries, named "1", "2", ... in order.
NamedEntries(entries) ==
    [i \in DOMAIN entries |-> <<SubSeq(Digits, i + 1, i + 1), entries[i]>>]

SuggestRosters ==
    {[agents |-> JSection(IF es = <<>> THEN <<>> ELSE <<Head(NamedEntries(es))>>),
      categories |-> JSection(IF es = <<>> THEN <<>> ELSE Tail(NamedEntries(es)))] :
        es \in UNION {[1..n -> SuggestEntries] : n \in 0..MaxTierRoster}}

SuggestStatuses ==
    {[i \in DOMAIN SuggestModels |->
         [model |-> SuggestModels[i],
          severity |-> IF i \in ok THEN "OK" ELSE "ERROR"]] :
        ok \in SUBSET DOMAIN SuggestModels}

InitSuggest ==
    /\ roster \in SuggestRosters
    /\ sugFailed \in Range(SuggestModels)
    /\ sugStatus \in SuggestStatuses
    /\ sugOut = <<>>
    /\ RunIdle
    /\ TierIdle
    /\ ErrIdle
    /\ ProbeIdle
    /\ TableIdle
    /\ ServerIdle

CallSuggest ==
    /\ sugOut = <<>>
    /\ sugOut' = <<suggest_replacement(sugFailed, sugStatus, roster)>>
    /\ UNCHANGED <<sugFailed, sugStatus, pingVars, tierVars, errVars, probeVars, tblVars,
                   srvVars>>

NextSuggest == CallSuggest

SpecSuggest == InitSuggest /\ [][NextSuggest]_vars

(***************************************************************************)
(* Specification SpecTable: one call of get_model_tiers, on a roster file  *)
(* that cannot be decoded or on any roster whose sections are absent or    *)
(* hold at most MaxTableSection of the entries below.                      *)
(***************************************************************************)
TableEntries ==
    {JObj([model |-> JStr("opus")]),
     JObj([model |-> JStr("gpt-5")]),
     JObj([model |-> JStr(" gpt-5 ")]),
     JObj([model |-> JStr("o-pro")]),
     JObj([model |-> JStr("sonnet")]),
     JObj([model |-> JNum(3)]),
     JObj(<<>>)}

TableSections ==
    {JSection(NamedEntries(es)) :
        es \in UNION {[1..n -> TableEntries] : n \in 0..MaxTableSection}}
    \cup {JNull}

TableRosters == [agents : TableSections, categories : TableSections] \cup {JFail}

InitTable ==
    /\ roster \in TableRosters
    /\ tiersOut = <<>>
    /\ RunIdle
    /\ TierIdle
    /\ ErrIdle
    /\ ProbeIdle
    /\ SugIdle
    /\ ServerIdle

CallGetModelTiers ==
    /\ tiersOut = <<>>
    /\ tiersOut' = <<get_model_tiers(roster)>>
    /\ UNCHANGED <<pingVars, tierVars, errVars, probeVars, sugVars, srvVars>>

NextTable == CallGetModelTiers

SpecTable == InitTable /\ [][NextTable]_vars

(***************************************************************************)
(* Specification SpecServer: the output files and the roster under the     *)
(* operations that write them, run by the threads of Handlers in any       *)
(* interleaving of their steps: a run of daily_ping.py or a refresh        *)
(* (load_roster and real_ping, then the two writes of write_outputs), and  *)
(* a replace-model request (the roster update and ping_single, the read    *)
(* of the status file, its write).  real_ping is taken as a whole here: it *)
(* returns the records for some outcome of each submitted probe, or raises *)
(* when a probe raised.  The write of the roster and the write of the      *)
(* status file by a replace-model request can raise; the request then ends *)
(* with the error answer of its except branch.                             *)
(***************************************************************************)
\* The roster at the start: two agents with the same model, one of them with
\* the empty name, and a category without a model.
ServerConfigs ==
    {[agents |-> JSection(<<<<"a", JObj([model |-> JStr("m1")])>>,
                            <<"", JObj([model |-> JStr("m1")])>>>>),
      categories |-> JSection(<<<<"b", JObj(<<>>)>>>>)]}

ReplaceBodies ==
    [agent_id : {"agent:a", "agent:", "category:b", "agent:zz", "team:a", "a", ""},
     new_model : {"m2", ""}]

InitServer ==
    /\ roster \in ServerConfigs
    /\ status = StatusAbsent
    /\ history = <<>>
    /\ clock = 0
    /\ lookups = {}
    /\ thr = [t \in Handlers |-> ThreadIdle]
    /\ backup = BackupAbsent
    /\ replaced = EmptyMap
    /\ answer = NoAnswer
    /\ RunIdle
    /\ TierIdle
    /\ ErrIdle
    /\ ProbeIdle
    /\ SugIdle
    /\ TableIdle

\* No other thread is in a replace-model request for entry id.
OnlyRequestFor(t, id) ==
    \A u \in Handlers \ {t} :
        ~(thr[u].pc \in {"pinged", "read"} /\ thr[u].agent_id = id)

\* The map `replaced` without entry id.
Forget(id) == [e \in DOMAIN replaced \ {id} |-> replaced[e]]

\* api_refresh lines 235-236, main lines 455-461.
RunProbe(t) ==
    /\ thr[t].pc = "idle"
    /\ clock < MaxClock
    /\ clock' = clock + 1
    /\ LET its == load_roster(roster)
           models == SubmittedModels(its)
       IN  \E f \in [Range(models) -> PingOutcomes] :
              /\ lookups' = lookups \cup
                     {f[m].http_status : m \in {x \in Range(models) : f[x] # Raised}}
              /\ IF \E m \in Range(models) : f[m] = Raised
                 THEN /\ answer' = Answer("refresh_failed")
                      /\ UNCHANGED thr
                 ELSE /\ answer' = NoAnswer
                      /\ thr' = [thr EXCEPT ![t] =
                                    [ThreadIdle EXCEPT !.pc = "probed",
                                                       !.items = Reconstruct(its, f),
                                                       !.probes = models]]
    /\ UNCHANGED <<roster, status, history, backup, replaced, runVars, tierVars,
                   errVars, probeVars, sugVars, tblVars>>

\* write_outputs lines 411-420.
WriteStatus(t) ==
    /\ thr[t].pc = "probed"
    /\ status' = Payload(thr[t].items, clock)
    /\ thr' = [thr EXCEPT ![t].pc = "status_written", ![t].payload = status']
    /\ answer' = NoAnswer
    /\ UNCHANGED <<roster, history, clock, lookups, backup, replaced, runVars,
                   tierVars, errVars, probeVars, sugVars, tblVars>>

\* write_outputs lines 421-422; the operation is over.
AppendHistory(t) ==
    /\ thr[t].pc = "status_written"
    /\ history' = AppendLine(history, thr[t].payload)
    /\ thr' = [thr EXCEPT ![t] = ThreadIdle]
    /\ answer' = Answer("refreshed")
    /\ UNCHANGED <<roster, status, clock, lookups, backup, replaced, runVars,
                   tierVars, errVars, probeVars, sugVars, tblVars>>

\* api_replace_model lines 139-191, the roster written.
ReplaceConfig(t) ==
    /\ thr[t].pc = "idle"
    /\ clock < MaxClock
    /\ clock' = clock + 1
    /\ \E body \in ReplaceBodies :
          IF Rejected(body, roster)
          THEN /\ answer' = Answer("rejected")
               /\ UNCHANGED <<roster, lookups, backup, replaced, thr>>
          ELSE /\ backup' = roster
               /\ roster' = SetModel(roster, body)
               /\ replaced' = Forget(body.agent_id)
               /\ \E i \in DOMAIN WEIGHTED_HTTP_STATUSES, latency_ms \in PingLatencies :
                     LET http_status == WEIGHTED_HTTP_STATUSES[i]
                         new_status == ping_single(IdName(body.agent_id),
                                                   IdType(body.agent_id),
                                                   body.new_model, http_status,
                                                   latency_ms)
                     IN  /\ lookups' = lookups \cup {http_status}
                         /\ IF new_status = Raised
                            THEN /\ answer' = ReplaceAnswer("ping_failed",
                                                 body.agent_id,
                                                 OldModel(roster, body),
                                                 body.new_model)
                                 /\ UNCHANGED thr
                            ELSE /\ answer' = NoAnswer
                                 /\ thr' = [thr EXCEPT ![t] =
                                               [ThreadIdle EXCEPT
                                                   !.pc = "pinged",
                                                   !.agent_id = body.agent_id,
                                                   !.old_model =
                                                       OldModel(roster, body),
                                                   !.new_status = new_status]]
    /\ UNCHANGED <<status, history, runVars, tierVars, errVars, probeVars, sugVars,
                   tblVars>>

\* api_replace_model lines 139-188 when CONFIG_PATH.write_text raises: the
\* backup is taken, the write leaves the roster file in any state, the backup
\* is copied over it and the request is answered with the error.
ReplaceConfigWriteFails(t) ==
    /\ thr[t].pc = "idle"
    /\ clock < MaxClock
    /\ clock' = clock + 1
    /\ \E body \in ReplaceBodies :
          /\ ~Rejected(body, roster)
          /\ backup' = roster
          /\ roster' = backup'
          /\ replaced' = Forget(body.agent_id)
          /\ answer' = Answer("config_write_failed")
    /\ UNCHANGED <<status, history, lookups, thr, runVars, tierVars, errVars,
                   probeVars, sugVars, tblVars>>

\* api_replace_model lines 195-196; without a status file the request ends
\* with the error answer of lines 209-218.
ReplaceRead(t) ==
    /\ thr[t].pc = "pinged"
    /\ IF status = StatusAbsent
       THEN /\ thr' = [thr EXCEPT ![t] = ThreadIdle]
            /\ answer' = ReplaceAnswer("status_update_failed", thr[t].agent_id,
                                       thr[t].old_model, thr[t].new_status.model)
       ELSE /\ thr' = [thr EXCEPT ![t].pc = "read", ![t].status_data = status]
            /\ answer' = NoAnswer
    /\ UNCHANGED <<roster, status, history, clock, lookups, backup, replaced, runVars,
                   tierVars, errVars, probeVars, sugVars, tblVars>>

\* api_replace_model lines 198-208; the request is answered ok.
ReplaceWrite(t) ==
    /\ thr[t].pc = "read"
    /\ status' = [thr[t].status_data EXCEPT
                     !.items = PatchItems(@, thr[t].agent_id, thr[t].new_status),
                     !.generated_at = clock]
    /\ replaced' = IF OnlyRequestFor(t, thr[t].agent_id)
                   THEN (thr[t].agent_id :> thr[t].new_status.model) @@ replaced
                   ELSE replaced
    /\ thr' = [thr EXCEPT ![t] = ThreadIdle]
    /\ answer' = ReplaceAnswer("ok", thr[t].agent_id, thr[t].old_model,
                               thr[t].new_status.model)
    /\ UNCHANGED <<roster, history, clock, lookups, backup, runVars, tierVars, errVars,
                   probeVars, sugVars, tblVars>>

\* api_replace_model lines 205-218 when STATUS_PATH.write_text raises before
\* it has touched the file: the request ends with the error answer.
ReplaceWriteFails(t) ==
    /\ thr[t].pc = "read"
    /\ thr' = [thr EXCEPT ![t] = ThreadIdle]
    /\ answer' = ReplaceAnswer("status_update_failed", thr[t].agent_id,
                               thr[t].old_model, thr[t].new_status.model)
    /\ UNCHANGED <<roster, status, history, clock, lookups, backup, replaced, runVars,
                   tierVars, errVars, probeVars, sugVars, tblVars>>

NextServer ==
    \E t \in Handlers :
        \/ RunProbe(t)
        \/ WriteStatus(t)
        \/ AppendHistory(t)
        \/ ReplaceConfig(t)
        \/ ReplaceConfigWriteFails(t)
        \/ ReplaceRead(t)
        \/ ReplaceWrite(t)
        \/ ReplaceWriteFails(t)

SpecServer == InitServer /\ [][NextServer]_vars

(***************************************************************************)
(* Specification SpecRefresh: the same operations on a server that starts  *)
(* with the output files of an earlier run of daily_ping.py on the roster. *)
(***************************************************************************)
\* What a run on the roster `config` can have written at time 0.
PriorSnapshots(config) ==
    {Payload(Reconstruct(load_roster(config), f), 0) :
        f \in [Range(SubmittedModels(load_roster(config))) -> PingOutcomes \ {Raised}]}

InitRefresh ==
    /\ roster \in ServerConfigs
    /\ status \in PriorSnapshots(roster)
    /\ history = <<status>>
    /\ clock = 0
    /\ lookups = {}
    /\ thr = [t \in Handlers |-> ThreadIdle]
    /\ backup = BackupAbsent
    /\ replaced = EmptyMap
    /\ answer = NoAnswer
    /\ RunIdle
    /\ TierIdle
    /\ ErrIdle
    /\ ProbeIdle
    /\ SugIdle
    /\ TableIdle

SpecRefresh == InitRefresh /\ [][NextServer]_vars

(***************************************************************************)
(* Properties of real_ping (specification Spec).                           *)
(***************************************************************************)
OutcomeFields(r) ==
    <<r.status, r.severity, r.http_status, r.error_type, r.error_message,
      r.latency_ms>>

HasModel(i) == items[i].model # None /\ items[i].model # ""

\* C1: in one run every distinct non-empty model is probed at most once at any
\* moment and exactly once by the time the pool is left, and in the returned
\* records all entries that share a model carry identical outcome fields
\* (status, severity, code, error_type, error_message, latency_ms).
C1_ProbedOnceSharedOutcome ==
    /\ \A m \in DOMAIN probeCalls : probeCalls[m] <= 1
    /\ pingPc \in {"rebuild", "returned", "raised"} =>
          /\ DOMAIN probeCalls = {items[i].model : i \in {j \in 1..Len(items) : HasModel(j)}}
          /\ \A m \in DOMAIN probeCalls : probeCalls[m] = 1
    /\ pingPc = "returned" =>
          \A i, j \in 1..Len(items) :
              (HasModel(i) /\ items[i].model = items[j].model) =>
                  OutcomeFields(results[i]) = OutcomeFields(results[j])

\* C1 witness: a returned run where two entries share a model and a third entry
\* of another model got a different outcome.
C1_Witness ==
    /\ pingPc = "returned"
    /\ \E i, j, k \in 1..Len(items) :
          /\ i # j /\ HasModel(i) /\ items[i].model = items[j].model
          /\ results[i].id # results[j].id
          /\ HasModel(k) /\ results[k].http_status # results[i].http_status

C3_ProbeFailureContained ==
    /\ pingPc # "raised"
    /\ pingPc = "returned" =>
          /\ Len(results) = Len(items)
          /\ \A i \in 1..Len(items) : \A t \in DOMAIN future_map :
                (HasModel(i) /\ future_map[t] = items[i].model) =>
                    IF future[t] = Raised
                    THEN /\ results[i].http_status = 500
                         /\ results[i].status = "PROVIDER_ERROR"
                         /\ results[i].error_message = "Probe failed"
                    ELSE OutcomeFields(results[i]) = OutcomeFields(future[t])

\* C4: no probe is ever submitted or started for a missing or empty model, and
\* in the returned records every entry without a model has INVALID_CONFIG /
\* ERROR / code 0 / "Missing model" / latency 0, whatever the other probes gave.
C4_MissingModelInvalidConfig ==
    /\ \A t \in DOMAIN future_map : future_map[t] # None /\ future_map[t] # ""
    /\ \A m \in DOMAIN probeCalls : m # None /\ m # ""
    /\ pingPc = "returned" =>
          \A i \in 1..Len(items) :
              ~HasModel(i) =>
                  /\ results[i].status = "INVALID_CONFIG"
                  /\ results[i].severity = "ERROR"
                  /\ results[i].http_status = 0
                  /\ results[i].error_message = "Missing model"
                  /\ results[i].latency_ms = 0

\* C4 witness: a returned run with an entry without a model beside an entry
\* whose probe reported an error.
C4_Witness ==
    /\ pingPc = "returned"
    /\ \E i, k \in 1..Len(items) :
          /\ ~HasModel(i) /\ results[i].status = "INVALID_CONFIG"
          /\ HasModel(k) /\ results[k].http_status = 429

\* C5: at every moment the number of probes in flight is at most max_workers.
C5_InFlightBounded ==
    pingPc # "idle" => Cardinality(running) <= max_workers

\* C5 witness: every thread of the pool is busy while a probe still waits.
C5_Witness ==
    /\ Cardinality(running) = max_workers
    /\ queued # {}
    /\ max_workers >= 2

(***************************************************************************)
(* Properties of suggest_replacement (specification SpecSuggest).          *)
(***************************************************************************)
\* The models some status record reports with severity OK.
StatusAlive == {sugStatus[i].model : i \in {j \in DOMAIN sugStatus : sugStatus[j].severity = "OK"}}

\* The tiers (indices in TIER_ORDER) whose bucket of the tier table holds m.
TableTiersOf(m) ==
    {i \in DOMAIN TIER_ORDER : m \in Range(get_model_tiers(roster)[TIER_ORDER[i]])}

FailedTier == TierIndex(_classify_tier(sugFailed))

\* C6: a suggested model is never the failed model, is reported OK by some
\* status record, and stands in the tier table in the failed model's tier or
\* the tier immediately above it, never in a tier below.
C6_SuggestionValid ==
    (sugOut # <<>> /\ sugOut[1] # None) =>
        /\ sugOut[1] # sugFailed
        /\ sugOut[1] \in StatusAlive
        /\ TableTiersOf(sugOut[1]) # {}
        /\ \A i \in TableTiersOf(sugOut[1]) :
              /\ i <= FailedTier
              /\ i >= FailedTier - 1

\* C6 witness: the failed model is itself alive and first in its tier of the
\* table, and another model is suggested.
C6_Witness ==
    /\ sugOut # <<>> /\ sugOut[1] # None
    /\ sugFailed \in StatusAlive
    /\ get_model_tiers(roster)[TIER_ORDER[FailedTier]] # <<>>
    /\ Head(get_model_tiers(roster)[TIER_ORDER[FailedTier]]) = sugFailed

\* The bucket of tier i of the table, cut to the alive models other than the
\* failed one, in table order.
Candidates(i) ==
    SelectSeq(get_model_tiers(roster)[TIER_ORDER[i]],
              LAMBDA m : m \in StatusAlive /\ m # sugFailed)

\* C7: the result is the first candidate of the failed model's own tier; if
\* there is none, the first candidate of the tier one index up (the top tier
\* stays the top tier); if there is none either, None.
C7_SearchOrder ==
    sugOut # <<>> =>
        LET up == IF FailedTier = 1 THEN 1 ELSE FailedTier - 1
        IN  sugOut[1] =
                IF Candidates(FailedTier) # <<>> THEN Head(Candidates(FailedTier))
                ELSE IF Candidates(up) # <<>> THEN Head(Candidates(up))
                ELSE None

\* C7 witness: nothing is suggested although the table holds alive models other
\* than the failed one, in a tier below it or more than one tier above it.
C7_Witness ==
    /\ sugOut = <<None>>
    /\ \E i \in DOMAIN TIER_ORDER : i > FailedTier /\ Candidates(i) # <<>>
    /\ \E i \in DOMAIN TIER_ORDER : i < FailedTier - 1 /\ Candidates(i) # <<>>

(***************************************************************************)
(* Properties of _classify_tier (specification SpecTier).                  *)
(***************************************************************************)
\* C8: the result is one of the four tiers, decided by case-insensitive
\* substring tests in fixed precedence: "opus" gives top whatever else the
\* identifier holds; else "gpt-5", "pro-high" or "pro" gives high, also beside
\* "sonnet"; else "sonnet" gives mid; everything else is light.
C8_TierPrecedence ==
    tierOut # <<>> =>
        LET low == Lower(tierIn)
            tier == tierOut[1]
            opus == Contains(low, "opus")
            high == Contains(low, "gpt-5") \/ Contains(low, "pro-high")
                    \/ Contains(low, "pro")
            sonnet == Contains(low, "sonnet")
        IN  /\ tier \in {"top", "high", "mid", "light"}
            /\ opus => tier = "top"
            /\ (~opus /\ high) => tier = "high"
            /\ (~opus /\ ~high /\ sonnet) => tier = "mid"
            /\ (~opus /\ ~high /\ ~sonnet) => tier = "light"
            /\ tierIn \in {"OpusGPT-5", "proopus", "Opus", "opusSONNET"} => tier = "top"
            /\ tierIn \in {"SONNETPro", "GPT-5", "pro-highsonnet", "Pro-4"} => tier = "high"
            /\ tierIn \in {"SONNET", "sonnet-4", "haikuSONNET"} => tier = "mid"
            /\ tierIn \in {"", "haiku", "-4", "haiku-4"} => tier = "light"

\* C8 witness: an identifier holding "opus" and "gpt-5" in mixed case is top.
C8_Witness == tierIn = "GPT-5Opus" /\ tierOut = <<"top">>

(***************************************************************************)
(* Properties of classify_error (specification SpecErr).                   *)
(***************************************************************************)
\* C9: the code is given by the earliest rule of the chain that the lower-cased
\* message matches: "model not found" 404; "unauthorized", "401", "403" 401;
\* "rate limit", "429" 429; "timeout", "408" 408; "500", "502", "503", "504",
\* "server error" 500; "400", "bad request" 400; an empty or absent message, or
\* one that matches no rule, 500.
C9_FirstRuleWins ==
    errOut # <<>> =>
        LET code == errOut[1]
            low == IF errIn = None THEN "" ELSE Lower(errIn)
            r1 == Contains(low, "model not found")
            r2 == Contains(low, "unauthorized") \/ Contains(low, "401")
                  \/ Contains(low, "403")
            r3 == Contains(low, "rate limit") \/ Contains(low, "429")
            r4 == Contains(low, "timeout") \/ Contains(low, "408")
            r5 == Contains(low, "500") \/ Contains(low, "502") \/ Contains(low, "503")
                  \/ Contains(low, "504") \/ Contains(low, "server error")
            r6 == Contains(low, "400") \/ Contains(low, "bad request")
        IN  /\ (errIn = None \/ errIn = "") => code = 500
            /\ r1 => code = 404
            /\ (~r1 /\ r2) => code = 401
            /\ (~r1 /\ ~r2 /\ r3) => code = 429
            /\ (~r1 /\ ~r2 /\ ~r3 /\ r4) => code = 408
            /\ (~r1 /\ ~r2 /\ ~r3 /\ ~r4 /\ r5) => code = 500
            /\ (~r1 /\ ~r2 /\ ~r3 /\ ~r4 /\ ~r5 /\ r6) => code = 400
            /\ (~r1 /\ ~r2 /\ ~r3 /\ ~r4 /\ ~r5 /\ ~r6) => code = 500
            /\ errIn \in {"Model Not Found", "401Model Not Found"} => code = 404
            /\ errIn \in {"Rate Limit403", "TIMEOUTunauthorized"} => code = 401
            /\ errIn \in {"Rate Limit", "TIMEOUTRate Limit", "400429"} => code = 429
            /\ errIn \in {"TIMEOUT", "Bad RequestTIMEOUT", "500408"} => code = 408
            /\ errIn \in {"Bad Request", "oopsBad Request", "400"} => code = 400
            /\ errIn \in {"oops", " ", "Bad Request503", "oops "} => code = 500

\* C9 witness: a message matching the "rate limit" rule and, later in the
\* text, the earlier "401" rule is classified by the earlier rule.
C9_Witness == errIn = "Rate Limit401" /\ errOut = <<401>>

(***************************************************************************)
(* Properties of probe_model (specification SpecProbe).                    *)
(***************************************************************************)
IsEvent(line, type) ==
    /\ Strip(line.text) # ""
    /\ line.parsed.t = "dict"
    /\ "type" \in DOMAIN line.parsed.f
    /\ line.parsed.f["type"] = JStr(type)

\* The index of the first "text" or "error" event of stdout (0: there is none).
FirstEvent(stdout) ==
    LET evs == {i \in DOMAIN stdout :
                   IsEvent(stdout[i], "text") \/ IsEvent(stdout[i], "error")}
    IN  IF evs = {} THEN 0 ELSE CHOOSE i \in evs : \A j \in evs : i <= j

\* C10 as stated: without a timeout the first "text" or "error" event of stdout
\* decides: "text" first gives 200 / ALIVE / OK without error fields, "error"
\* first gives an error outcome; every other line is skipped.
C10_FirstEventDecides ==
    (probePc = "done" /\ proc.how = "completed" /\ FirstEvent(proc.stdout) > 0) =>
        LET first == proc.stdout[FirstEvent(proc.stdout)]
            out == probeOut[1]
        IN  /\ out # Raised
            /\ IsEvent(first, "text") =>
                  /\ out.http_status = 200 /\ out.status = "ALIVE"
                  /\ out.severity = "OK"
                  /\ out.error_type = None /\ out.error_message = None
            /\ IsEvent(first, "error") =>
                  /\ out.http_status # 200
                  /\ out.severity # "OK"

\* C11: subprocess.run is called exactly once per call of probe_model, whatever
\* the process does; when it times out the call returns 408 / TIMEOUT / ERROR
\* with error_message "Timeout" and the elapsed time, and nothing is run again.
C11_TimeoutTerminal ==
    /\ invocations <= 1
    /\ probePc \in {"ran", "done"} => invocations = 1
    /\ (probePc = "done" /\ proc.how = "timeout") =>
          probeOut = <<[http_status |-> 408, status |-> "TIMEOUT",
                        severity |-> "ERROR", error_type |-> "TIMEOUT",
                        error_message |-> "Timeout", latency_ms |-> proc.elapsed]>>

\* C11 witness: a call whose process ran into the timeout has returned.
C11_Witness ==
    /\ probePc = "done" /\ proc.how = "timeout" /\ proc.elapsed = 60000
    /\ invocations = 1
    /\ probeOut # <<>> /\ probeOut[1] # Raised /\ probeOut[1].http_status = 408

\* The message the "error" event carries: error.data.message when it is a
\* string, otherwise the string error.message beside data, otherwise none.
PreferredMessage(payload) ==
    LET error_value == Get(payload, "error")
        data_value == IF IsDict(error_value) THEN Get(error_value, "data") ELSE JNull
        nested == IF IsDict(data_value) THEN Get(data_value, "message") ELSE JNull
        beside == IF IsDict(error_value) THEN Get(error_value, "message") ELSE JNull
    IN  IF IsStr(nested) THEN nested.s
        ELSE IF IsStr(beside) THEN beside.s
        ELSE None

\* C17 as stated: when an "error" event decides a call that returns and stderr
\* is empty, the error_message is error.data.message if that is a string and
\* otherwise the string error.message beside data, also when data is a dict
\* without a string message.
C17_NestedMessageWithFallback ==
    (/\ probePc = "done" /\ proc.how = "completed" /\ probeOut[1] # Raised
     /\ proc.stderr = ""
     /\ FirstEvent(proc.stdout) > 0
     /\ IsEvent(proc.stdout[FirstEvent(proc.stdout)], "error")) =>
        probeOut[1].error_message =
            PreferredMessage(proc.stdout[FirstEvent(proc.stdout)].parsed)

\* C18 as stated: in a call that returns without a timeout, the trimmed stderr
\* is the error_message when stdout holds no "text" or "error" event and stderr
\* is not blank; when an "error" event decides, the error_message is the one
\* extracted from that event, whatever stderr holds.
C18_StderrOnlyWithoutEvent ==
    (probePc = "done" /\ proc.how = "completed" /\ probeOut[1] # Raised) =>
        LET k == FirstEvent(proc.stdout)
            out == probeOut[1]
        IN  /\ (k = 0 /\ Strip(proc.stderr) # "") =>
                  out.error_message = Strip(proc.stderr)
            /\ (k > 0 /\ IsEvent(proc.stdout[k], "error")) =>
                  out.error_message = ErrorEventMessage(proc.stdout[k].parsed)

(***************************************************************************)
(* Properties of get_model_tiers (specification SpecTable).                *)
(***************************************************************************)
\* The model of an entry as the roster file gives it: its "model" string
\* without the surrounding blanks, the decimal text of a number, or None.
TableEntryModel(entry) ==
    IF "model" \notin DOMAIN entry.f THEN None
    ELSE IF entry.f["model"].t = "str" THEN Strip(entry.f["model"].s)
    ELSE IF entry.f["model"] = JNum(3) THEN "3"
    ELSE None

\* The models of the roster's entries in traversal order: the agents in
\* declaration order, then the categories in declaration order.
TableTraversal ==
    LET of(section) ==
            IF section = JNull THEN <<>>
            ELSE [i \in 1..Len(section.kv) |-> TableEntryModel(section.kv[i][2])]
    IN  IF roster = JFail THEN <<>>
        ELSE of(roster.agents) \o of(roster.categories)

\* The index of the first occurrence of model m in the traversal trav.
FirstOccurrence(trav, m) ==
    CHOOSE i \in DOMAIN trav : trav[i] = m /\ \A j \in 1..(i - 1) : trav[j] # m

\* C20: the table has the four tiers; every non-empty model of the roster
\* stands exactly once in the whole table, in the bucket _classify_tier names;
\* the table holds nothing else; and within a bucket the models stand in the
\* order of their first occurrence in the traversal (agents, then categories,
\* each in declaration order).
C20_TierTable ==
    tiersOut # <<>> =>
        LET tiers == tiersOut[1]
            trav == TableTraversal
            places(m) == {<<t, i>> \in Range(TIER_ORDER) \X (1..Len(trav)) :
                             i \in DOMAIN tiers[t] /\ tiers[t][i] = m}
        IN  /\ DOMAIN tiers = Range(TIER_ORDER)
            /\ \A k \in DOMAIN trav :
                  (trav[k] # None /\ trav[k] # "") =>
                      /\ Cardinality(places(trav[k])) = 1
                      /\ \E i \in DOMAIN tiers[_classify_tier(trav[k])] :
                            tiers[_classify_tier(trav[k])][i] = trav[k]
            /\ \A t \in Range(TIER_ORDER) :
                  /\ Len(tiers[t]) <= Len(trav)
                  /\ \A i \in DOMAIN tiers[t] :
                        /\ tiers[t][i] \in Range(trav)
                        /\ tiers[t][i] # None /\ tiers[t][i] # ""
                  /\ \A i, j \in DOMAIN tiers[t] :
                        i < j => FirstOccurrence(trav, tiers[t][i])
                                    < FirstOccurrence(trav, tiers[t][j])

\* C20 witness: a category's model stands in its bucket behind an agent's
\* model although the roster repeats the category's model in a later entry,
\* and an entry without a model is passed over.
C20_Witness ==
    /\ tiersOut # <<>> /\ roster # JFail
    /\ roster.agents # JNull /\ roster.categories # JNull
    /\ Len(roster.agents.kv) = 2 /\ Len(roster.categories.kv) = 2
    /\ TableTraversal = <<None, "o-pro", "gpt-5", "gpt-5">>
    /\ tiersOut[1]["high"] = <<"o-pro", "gpt-5">>

(***************************************************************************)
(* Properties of the output files (specification SpecServer).              *)
(***************************************************************************)
\* The snapshots there are: the status file and the lines of the history.
Snapshots == (IF status = StatusAbsent THEN {} ELSE {status}) \cup Range(history)

AllIdle == \A t \in Handlers : thr[t].pc = "idle"

\* C12: in the status file and in every history line each record has one of
\* the seven codes with the status and severity the table gives for it, or is
\* the INVALID_CONFIG / ERROR record with code 0; and STATUS_MAP has only
\* been indexed with the seven codes.
C12_TaxonomyClosed ==
    /\ lookups \subseteq {200, 429, 408, 500, 401, 404, 400}
    /\ \A snap \in Snapshots : \A i \in DOMAIN snap.items :
          LET r == snap.items[i]
          IN  \/ /\ r.http_status \in {200, 429, 408, 500, 401, 404, 400}
                 /\ <<r.status, r.severity>> = STATUS_MAP[r.http_status]
              \/ /\ r.http_status = 0
                 /\ r.status = "INVALID_CONFIG" /\ r.severity = "ERROR"

\* C12 witness: after a run and a replace-model request the status file holds
\* the INVALID_CONFIG record, a record of the run's probe and the record of
\* the simulated probe, with three different codes.
C12_Witness ==
    /\ AllIdle /\ status # StatusAbsent
    /\ \E i, j, k \in DOMAIN status.items :
          /\ status.items[i].http_status = 0
          /\ status.items[j].http_status = 429 /\ status.items[j].model = "m1"
          /\ status.items[k].http_status = 404 /\ status.items[k].model = "m2"

C14_ReplaceRunsProbeModel ==
    \A t \in Handlers :
        thr[t].pc \in {"pinged", "read"} =>
            /\ thr[t].probes = <<thr[t].new_status.model>>
            /\ \E o \in PingOutcomes \ {Raised} :
                  OutcomeFields(thr[t].new_status) = OutcomeFields(o)

\* C15: no step changes, removes or reorders a line of the history; the only
\* step that changes the history is the end of a write_outputs call, which
\* appends one line, the snapshot that call wrote to the status file.
C15_HistoryAppendOnly ==
    [][/\ Len(history') >= Len(history)
       /\ \A i \in DOMAIN history : history'[i] = history[i]
       /\ \A t \in Handlers :
             (thr[t].pc = "status_written" /\ thr'[t].pc = "idle") =>
                 history' = Append(history, thr[t].payload)
       /\ history' # history =>
             \E t \in Handlers : thr[t].pc = "status_written" /\ thr'[t].pc = "idle"]_vars

\* C15 witness: two write_outputs calls have ended; the history holds their
\* two different snapshots in the order of the appends.
C15_Witness ==
    /\ AllIdle
    /\ Len(history) = 2
    /\ history[1] # history[2]
    /\ status \in {history[1], history[2]}

\* C16 as stated: when no operation is under way and there is a status file,
\* the history is not empty and its last line is the content of the status
\* file.
C16_StatusIsLastHistoryLine ==
    (AllIdle /\ status # StatusAbsent) =>
        /\ history # <<>>
        /\ history[Len(history)] = status

(***************************************************************************)
(* Order of probing, reconstruction and writing (specification Spec).      *)
(***************************************************************************)
\* Every submitted probe has finished.
PoolDrained == queued = {} /\ running = {} /\ DOMAIN future = DOMAIN future_map

\* C19: reconstruction starts, and records exist, only when every submitted
\* probe of the run has finished; the status file and the history are written
\* only after the records are built, with those records; the history gets one
\* line, equal to the status file; a run that raised has written nothing.
C19_WritesAfterDrain ==
    /\ pingPc \in {"rebuild", "returned", "status_written", "written"} => PoolDrained
    /\ results # <<>> =>
          PoolDrained /\ pingPc \in {"returned", "status_written", "written"}
    /\ status # StatusAbsent =>
          /\ pingPc \in {"status_written", "written"}
          /\ status.items = results
          /\ Len(results) = Len(items)
    /\ Len(history) <= 1
    /\ history # <<>> => pingPc = "written" /\ history[1] = status
    /\ pingPc \in {"shutdown", "raised"} =>
          results = <<>> /\ status = StatusAbsent /\ history = <<>>

\* C19 witness: a run of two probes that finished in the reverse of their
\* submission has written its records to the status file and the history.
C19_Witness ==
    /\ pingPc = "written"
    /\ Len(collected) = 2 /\ collected[1] > collected[2]
    /\ Len(results) >= 2
    /\ status.items = results /\ history = <<status>>

(***************************************************************************)
(* Roster loading seen by real_ping (specification Spec).                  *)
(***************************************************************************)
\* The entries of the roster file in the order load_roster walks them.
RawEntries == roster.agents.kv \o roster.categories.kv

\* The i-th entry has no "model" string: the field is missing or no string.
NoModelString(i) ==
    LET entry == RawEntries[i][2]
    IN  "model" \notin DOMAIN entry.f \/ entry.f["model"].t # "str"

\* C21 as stated: an entry whose model field is missing or is no string is
\* loaded without a model, no probe is submitted for it, and in the returned
\* records it has the INVALID_CONFIG record.
C21_NonStringIsNoModel ==
    pingPc # "idle" =>
        \A i \in 1..Len(items) :
            NoModelString(i) =>
                /\ items[i].model = None
                /\ \A t \in DOMAIN future_map : future_map[t] # items[i].model
                /\ pingPc = "returned" =>
                      /\ results[i].status = "INVALID_CONFIG"
                      /\ results[i].http_status = 0


(***************************************************************************)
(* Replace-model requests next to refreshes, and their error answers       *)
(* (specifications SpecRefresh and SpecServer).                            *)
(***************************************************************************)
\* C22 as stated: once a replace-model request for an entry has been answered
\* ok and no other request for the entry has been accepted since or was under
\* way, the record of the status file with the entry's id has the request's
\* new model, which is the entry's model in the roster, whatever a refresh
\* does meanwhile.
C22_SnapshotAgreesWithRoster ==
    \A E \in DOMAIN replaced :
        \A i \in DOMAIN status.items :
            status.items[i].id = E => status.items[i].model = replaced[E]

\* The first two parts of C23: a step that answers a replace-model request with
\* a validation error changes neither the roster nor the status file nor the
\* history; a step that answers with the error of a failed roster write
\* leaves the roster as the backup it took, which is the roster before it.
C23_RejectedAndRestored ==
    [][LET gave(kind) == answer'.kind = kind /\ (clock' # clock \/ thr' # thr)
       IN  /\ gave("rejected") =>
                 roster' = roster /\ status' = status /\ history' = history
           /\ gave("config_write_failed") =>
                 backup' = roster /\ roster' = backup']_vars

\* C23 as stated: the two parts above, and no step that answers a
\* replace-model request with an error leaves the entry's model in the roster
\* changed to the new one while the record of the status file with the
\* entry's id still has the old model.
C23_ErrorLeavesConsistent ==
    [][LET gave(kind) == answer'.kind = kind /\ (clock' # clock \/ thr' # thr)
           E == answer'.agent_id
           old == answer'.old_model
           new == JStr(answer'.new_model)
       IN  /\ gave("rejected") =>
                 roster' = roster /\ status' = status /\ history' = history
           /\ gave("config_write_failed") =>
                 backup' = roster /\ roster' = backup'
           /\ (gave("status_update_failed") \/ gave("ping_failed")) =>
                 ~ /\ OldModel(roster', [agent_id |-> E]) = new
                   /\ new # old
                   /\ status' # StatusAbsent
                   /\ \E i \in DOMAIN status'.items :
                         /\ status'.items[i].id = E
                         /\ status'.items[i].model = normalize_model(old)]_vars

====
